---- MODULE Spec2Model ----
(***************************************************************************)
(* Model of scryfall_proxy (src/main.rs): the deck-list pipeline           *)
(*   stdin line -> LineCard::parse_from -> LineCard::download ->           *)
(*   parse_json (CardFace | MultiCardFace) + replication ->                *)
(*   group_every_9 -> document rendering -> main.                          *)
(*                                                                         *)
(* Text is modelled as a sequence of one-character strings (lines, tokens) *)
(* or of markup fragments (the HTML document).  A JSON body is modelled by *)
(* the structure serde sees: whether it is JSON at all, and the optional   *)
(* fields image_uris / large / card_faces (an optional field is a          *)
(* sequence of length 0 or 1).                                             *)
(***************************************************************************)
EXTENDS Integers, Sequences, FiniteSets, TLC

VARIABLES
    pc,          \* position of the process
    lines_read,  \* number of stdin items taken so far
    line,        \* the line being handled (sequence of characters)
    line_card,   \* Result of LineCard::parse_from for the current line
    json_data,   \* <<body>> after a successful download, else <<>>
    faces,       \* exec's `faces` vector
    pages,       \* value returned by group_every_9
    result,      \* value returned by exec
    stdout,      \* what main printed to standard output
    stderr,      \* what main printed to standard error
    exit_code,   \* process exit status, -1 while running
    gets,        \* the URLs given to reqwest::blocking::get, in order
    consumed     \* log of the (line, body) pairs normalized so far

vars == << pc, lines_read, line, line_card, json_data, faces, pages, result,
           stdout, stderr, exit_code, gets, consumed >>

---------------------------------------------------------------------------
(* Bounds *)

MaxLines == 3
MaxLineLen == 5

---------------------------------------------------------------------------
(* Generic sequence helpers *)

RECURSIVE Flatten(_)
Flatten(ss) == IF ss = << >> THEN << >> ELSE Head(ss) \o Flatten(Tail(ss))

RECURSIVE Repeat(_, _)
Repeat(s, k) == IF k = 0 THEN << >> ELSE s \o Repeat(s, k - 1)

RECURSIVE SeqsUpTo(_, _)
SeqsUpTo(S, n) ==
    IF n = 0 THEN { << >> }
    ELSE LET shorter == SeqsUpTo(S, n - 1)
         IN  shorter \cup { Append(s, x) : s \in shorter, x \in S }

---------------------------------------------------------------------------
(* Results: Ok(v) / Err(e) *)

Ok(v) == [ok |-> TRUE, val |-> << v >>, err |-> "None"]
Err(e) == [ok |-> FALSE, val |-> << >>, err |-> e]
NoResult == [ok |-> FALSE, val |-> << >>, err |-> "None"]

RuntimeError ==
    { "InvalidCardCountNumberError", "MalformedLineError", "ParseJsonError",
      "ParseStdinError", "WebRequestBodyParseError", "WebRequestError" }

---------------------------------------------------------------------------
(* Line Decoder *)

Digits == << "0", "1", "2", "3", "4", "5", "6", "7", "8", "9" >>
IsDigit(c) == \E i \in 1..10 : Digits[i] = c
DigitVal(c) == (CHOOSE i \in 1..10 : Digits[i] = c) - 1

U8Max == 255

\* str::split(" "): every single space separates; empty tokens are kept and
\* the empty line yields one empty token.
RECURSIVE SplitAcc(_, _, _)
SplitAcc(s, cur, acc) ==
    IF s = << >> THEN Append(acc, cur)
    ELSE IF Head(s) = " " THEN SplitAcc(Tail(s), << >>, Append(acc, cur))
    ELSE SplitAcc(Tail(s), Append(cur, Head(s)), acc)

split(s) == SplitAcc(s, << >>, << >>)

\* <u8 as FromStr>::from_str: -1 stands for Err(ParseIntError).  An optional
\* leading "+" is accepted, "-" is not, the digits are accumulated with
\* checked arithmetic on 8 bits.
RECURSIVE ParseDigits(_, _)
ParseDigits(s, acc) ==
    IF s = << >> THEN acc
    ELSE IF ~IsDigit(Head(s)) THEN -1
    ELSE IF acc * 10 + DigitVal(Head(s)) > U8Max THEN -1
    ELSE ParseDigits(Tail(s), acc * 10 + DigitVal(Head(s)))

parse_u8(tok) ==
    IF tok = << >> THEN -1
    ELSE IF tok = << "+" >> \/ tok = << "-" >> THEN -1
    ELSE IF Head(tok) = "+" THEN ParseDigits(Tail(tok), 0)
    ELSE ParseDigits(tok, 0)

LineCard(count, code, set) == [count |-> count, code |-> code, set |-> set]

parse_from_late_count(line_str) ==
    LET token_group == split(line_str)
    IN  IF Len(token_group) < 3 THEN Err("MalformedLineError")
        ELSE IF parse_u8(token_group[1]) = -1
             THEN Err("InvalidCardCountNumberError")
        ELSE Ok(LineCard(parse_u8(token_group[1]), token_group[2],
                         token_group[3]))

parse_from(line_str) ==
    LET token_group == split(line_str)
    IN  IF Len(token_group) < 1 THEN Err("MalformedLineError")
        ELSE IF parse_u8(token_group[1]) = -1
             THEN Err("InvalidCardCountNumberError")
        ELSE IF Len(token_group) < 2 THEN Err("MalformedLineError")
        ELSE IF Len(token_group) < 3 THEN Err("MalformedLineError")
        ELSE Ok(LineCard(parse_u8(token_group[1]), token_group[2],
                         token_group[3]))

UrlPrefix == "https://api.scryfall.com/cards/"

to_url_swapped(card) == << UrlPrefix >> \o card.set \o << "/" >> \o card.code

to_url(card) == << UrlPrefix >> \o card.code \o << "/" >> \o card.set

---------------------------------------------------------------------------
(* Remote JSON and the serde decoders *)

Urls == { "u1", "u2", "u3" }

CardFace(u) == [image_uris |-> [large |-> u]]

\* JSON sub-object of a card_faces list.
SubObj(u) == [image_uris |-> << [large |-> << u >>] >>]
SubObjNoImage == [image_uris |-> << >>]

JsonObject(iu, cf) == [is_json |-> TRUE, image_uris |-> iu, card_faces |-> cf]
NotJson == [is_json |-> FALSE, image_uris |-> << >>, card_faces |-> << >>]

ImageUris(u) == << [large |-> << u >>] >>
ImageUrisNoLarge == << [large |-> << >>] >>

JsonBodies ==
    { NotJson,
      JsonObject(<< >>, << >>),
      JsonObject(ImageUris("u1"), << >>),
      JsonObject(ImageUris("u3"), << << SubObj("u1"), SubObj("u2") >> >>),
      JsonObject(<< >>, << << SubObj("u1"), SubObj("u2") >> >>),
      JsonObject(<< >>, << << >> >>),
      JsonObject(<< >>, << << SubObj("u1"), SubObjNoImage >> >>),
      JsonObject(ImageUrisNoLarge, << << SubObj("u2"), SubObj("u1") >> >>) }

\* #[derive(Deserialize)] struct ImageUriGroup / CardFace: the field must be
\* present and decode; unknown fields are ignored.
DecodesImageUriGroup(iu) == Len(iu) = 1 /\ Len(iu[1].large) = 1
DecodesCardFace(o) == DecodesImageUriGroup(o.image_uris)

parse_json_CardFace(data) ==
    IF data.is_json /\ DecodesCardFace(data)
    THEN Ok(CardFace(data.image_uris[1].large[1]))
    ELSE Err("ParseJsonError")

\* struct MultiCardFace { card_faces: Vec<CardFace> }: every element of the
\* list must decode as a CardFace.
parse_json_MultiCardFace(data) ==
    IF /\ data.is_json
       /\ Len(data.card_faces) = 1
       /\ \A i \in 1..Len(data.card_faces[1]) :
              DecodesCardFace(data.card_faces[1][i])
    THEN Ok([card_faces |->
                [i \in 1..Len(data.card_faces[1]) |->
                    CardFace(data.card_faces[1][i].image_uris[1].large[1])]])
    ELSE Err("ParseJsonError")

\* The if / else-if / else of exec's loop body: Ok(faces to append) or Err.
allocated_faces_once(json, count) ==
    IF parse_json_CardFace(json).ok
    THEN Ok(IF count = 0 THEN << >> ELSE << parse_json_CardFace(json).val[1] >>)
    ELSE IF parse_json_MultiCardFace(json).ok
    THEN Ok(IF count = 0 THEN << >>
            ELSE parse_json_MultiCardFace(json).val[1].card_faces)
    ELSE Err("ParseJsonError")

allocated_faces_multi_first(json, count) ==
    IF parse_json_MultiCardFace(json).ok
    THEN Ok(Flatten(Repeat(<< parse_json_MultiCardFace(json).val[1].card_faces >>,
                           count)))
    ELSE IF parse_json_CardFace(json).ok
    THEN Ok(Repeat(<< parse_json_CardFace(json).val[1] >>, count))
    ELSE Err("ParseJsonError")

allocated_faces(json, count) ==
    IF parse_json_CardFace(json).ok
    THEN Ok(Repeat(<< parse_json_CardFace(json).val[1] >>, count))
    ELSE IF parse_json_MultiCardFace(json).ok
    THEN Ok(Flatten(Repeat(<< parse_json_MultiCardFace(json).val[1].card_faces >>,
                           count)))
    ELSE Err("ParseJsonError")

---------------------------------------------------------------------------
(* Paginator *)

PageSize == 9

\* The for loop of group_every_9 from position i on; what is left in
\* inner_v when the loop ends is not returned.
RECURSIVE GroupLoop(_, _, _, _, _)
GroupLoop(card_faces, i, counter, outer_v, inner_v) ==
    IF i > Len(card_faces) THEN outer_v
    ELSE LET pushed == Append(inner_v, card_faces[i])
         IN  IF counter % PageSize = 0
             THEN GroupLoop(card_faces, i + 1, counter + 1,
                            Append(outer_v, pushed), << >>)
             ELSE GroupLoop(card_faces, i + 1, counter + 1, outer_v, pushed)

group_every_9(card_faces) == GroupLoop(card_faces, 1, 0, << >>, << >>)

---------------------------------------------------------------------------
(* Document Renderer: markup is a sequence of fragments *)

HEAD_HTML ==
    << "<head>", "<style>...</style>", "<title>Scryfall Proxy</title>",
       "</head>" >>

BEGIN_DOCUMENT_HTML ==
    << "<!DOCTYPE html>", "<html>" >> \o HEAD_HTML \o << "<body>", "<ul>" >>

END_DOCUMENT_HTML == << "</ul>", "</body>", "</html>" >>

ImgOpen == "<li><img src=\""
ImgClose == "\"></li>"

img_content(card_face) == << ImgOpen, card_face.image_uris.large, ImgClose >>

\* Vec<String>::join(sep)
RECURSIVE Join(_, _)
Join(strs, sep) ==
    IF strs = << >> THEN << >>
    ELSE IF Len(strs) = 1 THEN strs[1]
    ELSE strs[1] \o sep \o Join(Tail(strs), sep)

page_html(card_faces) ==
    Join([i \in 1..Len(card_faces) |-> img_content(card_faces[i])], << >>)

body_html_no_separator(pgs) ==
    Join([i \in 1..Len(pgs) |-> page_html(pgs[i])], << >>)

body_html(pgs) ==
    Join([i \in 1..Len(pgs) |-> page_html(pgs[i])], << "</ul>", "<ul>" >>)

render(pgs) == BEGIN_DOCUMENT_HTML \o body_html(pgs) \o END_DOCUMENT_HTML

\* Reading a document back: the image sources of each <ul> ... </ul>
\* container, in document order.
RECURSIVE ContainersAcc(_, _, _, _)
ContainersAcc(doc, open, cur, acc) ==
    IF doc = << >> THEN acc
    ELSE IF Head(doc) = "<ul>" THEN ContainersAcc(Tail(doc), TRUE, << >>, acc)
    ELSE IF Head(doc) = "</ul>"
         THEN ContainersAcc(Tail(doc), FALSE, << >>, Append(acc, cur))
    ELSE IF open /\ Head(doc) = ImgOpen /\ Len(doc) >= 3 /\ doc[3] = ImgClose
         THEN ContainersAcc(Tail(Tail(Tail(doc))), open,
                            Append(cur, doc[2]), acc)
    ELSE ContainersAcc(Tail(doc), open, cur, acc)

Containers(doc) == ContainersAcc(doc, FALSE, << >>, << >>)

RECURSIVE ImageSources(_)
ImageSources(doc) ==
    IF doc = << >> THEN << >>
    ELSE IF Head(doc) = ImgOpen /\ Len(doc) >= 2
         THEN << doc[2] >> \o ImageSources(Tail(Tail(doc)))
    ELSE ImageSources(Tail(doc))

PageUrls(pg) == [i \in 1..Len(pg) |-> pg[i].image_uris.large]

err_msg(e) ==
    CASE e = "InvalidCardCountNumberError" ->
             "<x> failed to parse as a positive integer less than 256."
      [] e = "MalformedLineError" -> "Input parse failed."
      [] e = "ParseJsonError" ->
             "JSON response parsing failed. However, the actual web request succeeded."
      [] e = "ParseStdinError" -> "STDIN failed to parse."
      [] e = "WebRequestBodyParseError" ->
             "Card web request downloaded successfully, but the body was malformed."
      [] e = "WebRequestError" -> "Card web request failed."

---------------------------------------------------------------------------
(* Pipeline Driver: exec and main *)

\* What stdin().lines() can yield: a line of text or a read error.
StdinLine(text) == [ok |-> TRUE, text |-> text]
StdinError == [ok |-> FALSE, text |-> << >>]

InputLines ==
    { << "0", " ", "A", " ", "7" >>,
      << "2", " ", "A", " ", "7" >>,
      << "5", " ", "B", " ", "8" >>,
      << "2", " ", "A" >>,
      << "3", "0", "0", " ", "A", " ", "7" >> }

StdinItems == { StdinLine(l) : l \in InputLines } \cup { StdinError }

Init ==
    /\ pc = "read"
    /\ lines_read = 0
    /\ line = << >>
    /\ line_card = NoResult
    /\ json_data = << >>
    /\ faces = << >>
    /\ pages = << >>
    /\ result = NoResult
    /\ stdout = << >>
    /\ stderr = << >>
    /\ exit_code = -1
    /\ gets = << >>
    /\ consumed = << >>

\* `for maybe_line in std::io::stdin().lines()`: the next item of the stream.
ReadLine ==
    /\ pc = "read"
    /\ lines_read < MaxLines
    /\ \E item \in StdinItems :
          /\ lines_read' = lines_read + 1
          /\ IF item.ok
             THEN /\ line' = item.text
                  /\ pc' = "parse"
                  /\ UNCHANGED result
             ELSE /\ result' = Err("ParseStdinError")
                  /\ pc' = "main"
                  /\ UNCHANGED line
    /\ UNCHANGED << line_card, json_data, faces, pages, stdout, stderr,
                    exit_code, gets, consumed >>

ParseLine_skip_bad ==
    /\ pc = "parse"
    /\ line_card' = parse_from(line)
    /\ pc' = IF line_card'.ok THEN "download" ELSE "read"
    /\ UNCHANGED << lines_read, line, json_data, faces, pages, stdout, stderr,
                    exit_code, gets, consumed, result >>

\* `LineCard::parse_from(&line)?`
ParseLine ==
    /\ pc = "parse"
    /\ line_card' = parse_from(line)
    /\ IF line_card'.ok
       THEN pc' = "download" /\ UNCHANGED result
       ELSE pc' = "main" /\ result' = Err(line_card'.err)
    /\ UNCHANGED << lines_read, line, json_data, faces, pages, stdout, stderr,
                    exit_code, gets, consumed >>

\* `line_card.download()?`: one blocking GET, then the body as text.
DownloadOutcomes ==
    { Err("WebRequestError"), Err("WebRequestBodyParseError") }
        \cup { Ok(b) : b \in JsonBodies }

Download_twice ==
    /\ pc = "download"
    /\ gets' = gets \o << to_url(line_card.val[1]), to_url(line_card.val[1]) >>
    /\ \E outcome \in DownloadOutcomes :
          IF outcome.ok
          THEN /\ json_data' = << outcome.val[1] >>
               /\ pc' = "normalize"
               /\ UNCHANGED result
          ELSE /\ result' = Err(outcome.err)
               /\ pc' = "main"
               /\ UNCHANGED json_data
    /\ UNCHANGED << lines_read, line, line_card, faces, pages, stdout, stderr,
                    exit_code, consumed >>

Download ==
    /\ pc = "download"
    /\ gets' = Append(gets, to_url(line_card.val[1]))
    /\ \E outcome \in DownloadOutcomes :
          IF outcome.ok
          THEN /\ json_data' = << outcome.val[1] >>
               /\ pc' = "normalize"
               /\ UNCHANGED result
          ELSE /\ result' = Err(outcome.err)
               /\ pc' = "main"
               /\ UNCHANGED json_data
    /\ UNCHANGED << lines_read, line, line_card, faces, pages, stdout, stderr,
                    exit_code, consumed >>

\* The shape dispatch and `faces.append(..)`; the loop body's locals go out
\* of scope at the end of the iteration.
Normalize ==
    /\ pc = "normalize"
    /\ LET r == allocated_faces(json_data[1], line_card.val[1].count)
       IN  IF r.ok
           THEN /\ faces' = faces \o r.val[1]
                /\ consumed' = Append(consumed,
                                      [line |-> line, body |-> json_data[1]])
                /\ pc' = "read"
                /\ line' = << >>
                /\ line_card' = NoResult
                /\ json_data' = << >>
                /\ UNCHANGED result
           ELSE /\ result' = Err(r.err)
                /\ pc' = "main"
                /\ UNCHANGED << faces, consumed, line, line_card, json_data >>
    /\ UNCHANGED << lines_read, pages, stdout, stderr, exit_code, gets >>

\* End of the stream: the loop is left.
EndOfInput ==
    /\ pc = "read"
    /\ pc' = "render"
    /\ UNCHANGED << lines_read, line, line_card, json_data, faces, pages,
                    result, stdout, stderr, exit_code, gets, consumed >>

\* group_every_9, body_html and the three push_str calls; exec returns Ok.
Render ==
    /\ pc = "render"
    /\ pages' = << group_every_9(faces) >>
    /\ result' = Ok(render(pages'[1]))
    /\ pc' = "main"
    /\ UNCHANGED << lines_read, line, line_card, json_data, faces, stdout,
                    stderr, exit_code, gets, consumed >>

\* main: `Ok(s) => println!("{}", s)`
MainOk ==
    /\ pc = "main"
    /\ result.ok
    /\ stdout' = << result.val[1], "\n" >>
    /\ exit_code' = 0
    /\ pc' = "exit"
    /\ UNCHANGED << lines_read, line, line_card, json_data, faces, pages,
                    result, stderr, gets, consumed >>

\* main: `Err(e) => { eprintln!("{}", err_msg(e)); exit(1) }`
MainErr ==
    /\ pc = "main"
    /\ ~result.ok
    /\ stderr' = << err_msg(result.err), "\n" >>
    /\ exit_code' = 1
    /\ pc' = "exit"
    /\ UNCHANGED << lines_read, line, line_card, json_data, faces, pages,
                    result, stdout, gets, consumed >>

Next ==
    \/ ReadLine
    \/ ParseLine
    \/ Download
    \/ Normalize
    \/ EndOfInput
    \/ Render
    \/ MainOk
    \/ MainErr

Spec == Init /\ [][Next]_vars

---------------------------------------------------------------------------
(* The Line Decoder and the URL builder on every short line *)

LineAlphabet == { "2", "9", "a", "+", " " }

InitDecode ==
    /\ pc = "decode"
    /\ line \in SeqsUpTo(LineAlphabet, MaxLineLen)
    /\ lines_read = 0
    /\ line_card = NoResult
    /\ json_data = << >>
    /\ faces = << >>
    /\ pages = << >>
    /\ result = NoResult
    /\ stdout = << >>
    /\ stderr = << >>
    /\ exit_code = -1
    /\ gets = << >>
    /\ consumed = << >>

DecodeLine ==
    /\ pc = "decode"
    /\ line_card' = parse_from(line)
    /\ pc' = IF line_card'.ok THEN "url" ELSE "decoded"
    /\ UNCHANGED << lines_read, line, json_data, faces, pages, result, stdout,
                    stderr, exit_code, gets, consumed >>

LookupUrl ==
    /\ pc = "url"
    /\ gets' = << to_url(line_card.val[1]) >>
    /\ pc' = "decoded"
    /\ UNCHANGED << lines_read, line, line_card, json_data, faces, pages,
                    result, stdout, stderr, exit_code, consumed >>

NextDecode ==
    \/ DecodeLine
    \/ LookupUrl

SpecDecode == InitDecode /\ [][NextDecode]_vars

---------------------------------------------------------------------------
(* Properties *)

Failed == ~result.ok /\ result.err # "None"
Paginated == pages # << >>
Document == result.val[1]

CeilDiv(n, d) == (n + d - 1) \div d

\* Read from the JSON structure itself, not through the decoders.
HasDirectImage(body) ==
    body.is_json /\ Len(body.image_uris) = 1 /\ Len(body.image_uris[1].large) = 1
HasFaceList(body) ==
    /\ body.is_json
    /\ Len(body.card_faces) = 1
    /\ \A i \in 1..Len(body.card_faces[1]) :
          /\ Len(body.card_faces[1][i].image_uris) = 1
          /\ Len(body.card_faces[1][i].image_uris[1].large) = 1
DirectUrl(body) == body.image_uris[1].large[1]
ListUrls(body) ==
    [i \in 1..Len(body.card_faces[1]) |->
        body.card_faces[1][i].image_uris[1].large[1]]
ResponseUrls(body) ==
    IF HasDirectImage(body) THEN << DirectUrl(body) >> ELSE ListUrls(body)
FacesOf(urls) == [i \in 1..Len(urls) |-> CardFace(urls[i])]

Tokens(l) == split(l)
LineCount(l) == parse_u8(Tokens(l)[1])

RECURSIVE ExpectedSources(_)
ExpectedSources(log) ==
    IF log = << >> THEN << >>
    ELSE Repeat(ResponseUrls(Head(log).body), LineCount(Head(log).line))
             \o ExpectedSources(Tail(log))

\* C1: concatenating the pages returned by group_every_9, in order, gives
\* back the face sequence it was given: nothing dropped, duplicated or
\* reordered.
C1_PagesConcatToFaces == Paginated => Flatten(pages[1]) = faces

\* C2: group_every_9 returns ceil(N/9) pages and every page but the last
\* has exactly 9 faces.
C2_PageCountAndSizes ==
    Paginated =>
        /\ Len(pages[1]) = CeilDiv(Len(faces), PageSize)
        /\ \A i \in 1..(Len(pages[1]) - 1) : Len(pages[1][i]) = PageSize

\* C3: a failing stage stops the pipeline at once: the result is that one
\* error, nothing is written to standard output, nothing more is read,
\* decoded or looked up, pagination and rendering never run; pagination
\* and rendering happen only once every line read has become faces.
C3_Inv ==
    /\ Failed => /\ stdout = << >>
                 /\ ~Paginated
                 /\ result.val = << >>
                 /\ pc \in { "main", "exit" }
    /\ Paginated => result.ok /\ Len(consumed) = lines_read

C3_Step ==
    /\ Failed => UNCHANGED << result, lines_read, line, line_card, json_data,
                              faces, pages, gets, consumed, stdout >>
    /\ (Failed' /\ ~Failed) =>
            pc' = "main" /\ UNCHANGED << faces, pages, stdout >>
    /\ (pc = "parse" /\ ~parse_from(line).ok) =>
            result' = Err(parse_from(line).err)
    /\ (pc = "normalize" /\ ~HasDirectImage(json_data[1])
                         /\ ~HasFaceList(json_data[1])) =>
            result' = Err("ParseJsonError")
    /\ (pc = "read" /\ pc' = "main") => result' = Err("ParseStdinError")
    /\ (pc = "download" /\ pc' = "main") =>
            result'.err \in { "WebRequestError", "WebRequestBodyParseError" }

C3_AbortOnFirstError == [](C3_Inv) /\ [][C3_Step]_vars

C3_Witness ==
    /\ pc = "exit"
    /\ Failed
    /\ Len(consumed) >= 1
    /\ faces # << >>
    /\ lines_read = Len(consumed) + 1
    /\ stdout = << >>
    /\ exit_code = 1

\* C4: the image sources of the printed document are the per-line face
\* sequences, each repeated count times, concatenated in input order.
C4_OutputImages ==
    stdout # << >> => ImageSources(stdout[1]) = ExpectedSources(consumed)

\* C5: every line with fewer than three tokens fails with MalformedLine,
\* whatever its first token is.
C5_FewTokensMalformed ==
    (pc = "decoded" /\ Len(Tokens(line)) < 3) =>
        line_card = Err("MalformedLineError")

\* C5 (amended): a line with fewer than three tokens fails with MalformedLine
\* when its first token parses as an integer in [0,255], and with
\* InvalidCardCountNumber when it does not.
C5_FewTokensByFirstToken ==
    (pc = "decoded" /\ Len(Tokens(line)) < 3) =>
        line_card = IF parse_u8(Tokens(line)[1]) = -1
                    THEN Err("InvalidCardCountNumberError")
                    ELSE Err("MalformedLineError")

C5_Witness ==
    /\ pc = "decoded"
    /\ Len(Tokens(line)) = 2
    /\ parse_u8(Tokens(line)[1]) = 29
    /\ line_card = Err("MalformedLineError")

DecodedFaces(body) ==
    IF parse_json_CardFace(body).ok
    THEN << parse_json_CardFace(body).val[1] >>
    ELSE parse_json_MultiCardFace(body).val[1].card_faces

C7_ReplicateStep ==
    (pc = "normalize" /\ (parse_json_CardFace(json_data[1]).ok
                          \/ parse_json_MultiCardFace(json_data[1]).ok)) =>
        LET F == DecodedFaces(json_data[1])
            k == LineCount(line)
        IN  /\ k = line_card.val[1].count
            /\ Len(faces') = Len(faces) + k * Len(F)
            /\ SubSeq(faces', 1, Len(faces)) = faces
            /\ \A j \in 1..(k * Len(F)) :
                   faces'[Len(faces) + j] = F[((j - 1) % Len(F)) + 1]
            /\ pc' = "read"
            /\ result' = result

C7_Replication == [][C7_ReplicateStep]_vars

C7_Witness ==
    /\ Len(consumed) = 2
    /\ LineCount(consumed[1].line) = 2
    /\ LineCount(consumed[2].line) = 5
    /\ ~HasDirectImage(consumed[2].body)
    /\ Len(ListUrls(consumed[2].body)) = 2
    /\ Len(faces) = 12
    /\ SubSeq(faces, 3, 12) = FacesOf(Repeat(<< "u1", "u2" >>, 5))

\* C8: the document holds one <ul> container per page, in page order, with
\* one image per face in face order, between preamble and closing; also for
\* the empty page sequence.
WellFramed(doc) ==
    /\ Len(doc) >= Len(BEGIN_DOCUMENT_HTML) + Len(END_DOCUMENT_HTML)
    /\ SubSeq(doc, 1, Len(BEGIN_DOCUMENT_HTML)) = BEGIN_DOCUMENT_HTML
    /\ SubSeq(doc, Len(doc) - Len(END_DOCUMENT_HTML) + 1, Len(doc))
           = END_DOCUMENT_HTML

PagesUrls(pgs) == [i \in 1..Len(pgs) |-> PageUrls(pgs[i])]

C8_ContainerPerPage ==
    (Paginated /\ result.ok) =>
        /\ WellFramed(Document)
        /\ Containers(Document) = PagesUrls(pages[1])

\* C8 (amended): for a non-empty page sequence the document holds one <ul>
\* container per page, in page order, with one image per face in face
\* order, between preamble and closing; for the empty page sequence it
\* holds exactly one container, which is empty.
C8_ContainerPerPageOrOneEmpty ==
    (Paginated /\ result.ok) =>
        /\ WellFramed(Document)
        /\ Containers(Document) =
               IF pages[1] = << >> THEN << << >> >> ELSE PagesUrls(pages[1])

C8_Witness ==
    /\ Paginated
    /\ result.ok
    /\ Len(pages[1]) = 3
    /\ Len(pages[1][2]) = PageSize
    /\ Len(Containers(Document)) = 3

\* C9: the single-face shape is tried first; a body with a direct image
\* gives one face per replication even when it also has a face list, a body
\* with only a decodable face list gives its sub-faces in order, any other
\* body (a sub-face without image included) fails with ParseJson and adds
\* no face.
C9_DispatchStep ==
    pc = "normalize" =>
        LET body == json_data[1]
            k == line_card.val[1].count
        IN  IF HasDirectImage(body)
            THEN faces' = faces \o Repeat(<< CardFace(DirectUrl(body)) >>, k)
            ELSE IF HasFaceList(body)
            THEN faces' = faces \o Repeat(FacesOf(ListUrls(body)), k)
            ELSE /\ result' = Err("ParseJsonError")
                 /\ faces' = faces
                 /\ pc' = "main"

C9_ShapeDispatch == [][C9_DispatchStep]_vars

C9_Witness ==
    /\ pc = "read"
    /\ Len(consumed) = 1
    /\ HasDirectImage(consumed[1].body)
    /\ HasFaceList(consumed[1].body)
    /\ LineCount(consumed[1].line) = 2
    /\ faces = << CardFace("u3"), CardFace("u3") >>

\* C10: one GET per successfully decoded line (count 0 included), in input
\* order, finished and normalized before the next line is read; no GET for
\* a line that fails decoding, no retry of a failed GET, no GET after the
\* pipeline aborted.
LineUrl(l) ==
    << UrlPrefix >> \o Tokens(l)[2] \o << "/" >> \o Tokens(l)[3]

C10_Inv ==
    /\ \A i \in 1..Len(consumed) : gets[i] = LineUrl(consumed[i].line)
    /\ Len(gets) \in { Len(consumed), Len(consumed) + 1 }
    /\ Len(gets) = Len(consumed) + 1 =>
           /\ pc \in { "normalize", "main", "exit" }
           /\ gets[Len(gets)] = LineUrl(line)
    /\ pc \in { "parse", "download" } =>
           Len(gets) = lines_read - 1 /\ Len(consumed) = lines_read - 1
    /\ pc \in { "read", "render" } =>
           Len(gets) = lines_read /\ Len(consumed) = lines_read

C10_Step ==
    /\ gets' # gets =>
           /\ pc = "download"
           /\ line_card.ok
           /\ ~Failed
           /\ gets' = Append(gets, LineUrl(line))
    /\ pc = "download" => Len(gets') = Len(gets) + 1
    /\ (pc = "parse" /\ ~parse_from(line).ok) => gets' = gets /\ pc' = "main"
    /\ lines_read' # lines_read =>
           /\ lines_read' = lines_read + 1
           /\ Len(gets) = lines_read
           /\ Len(consumed) = lines_read
           /\ json_data = << >>

C10_SequentialLookups == [](C10_Inv) /\ [][C10_Step]_vars

C10_Witness ==
    /\ pc = "exit"
    /\ result.err = "WebRequestError"
    /\ Len(gets) = 2
    /\ Len(consumed) = 1
    /\ LineCount(consumed[1].line) = 0
    /\ lines_read = 2

====
